---- MODULE Spec2Model ----
(***************************************************************************)
(* Model of sonatype-central-publisher.py: the four remote operations      *)
(* (upload_bundle, check_deployment_status, publish_deployment,            *)
(* drop_deployment), the polling loop wait_for_deployment and the command  *)
(* chain of main.  The remote service and the credential source are the    *)
(* environment: every response, fault and call duration is a               *)
(* nondeterministic input.                                                  *)
(***************************************************************************)
EXTENDS Integers, Sequences, FiniteSets, TLC

\* ------------------------------------------------------------------ bounds
MaxTimeout == 4      \* largest timeout passed to wait_for_deployment directly
MaxInterval == 2     \* largest check_interval passed directly (smallest is 1)
MaxCallTime == 1     \* seconds the status calls of one wait may consume in total
MaxBody == 2         \* longest upload response body, in characters
MaxStart == 1        \* latest clock reading at process start

\* ------------------------------------------------------- program constants
DefaultInterval == 10
DefaultTimeout == 1800
DefaultTarget == "PUBLISHED"

\* ------------------------------------------------------------ Python values
None == [t |-> "None", v |-> "None"]
Str(s) == [t |-> "str", v |-> s]
Bool(b) == [t |-> "bool", v |-> b]
Dict(d) == [t |-> "dict", v |-> d]

\* A key a dict does not hold.
Absent == "<absent>"

\* The six states of the service, and one it may grow later.
KnownStates == {"PENDING", "VALIDATING", "VALIDATED", "PUBLISHING", "PUBLISHED", "FAILED"}
StateStrings == KnownStates \cup {"NEW_STATE"}

\* The decoded JSON objects of a 200 status response: deploymentState and
\* errors, each present or not.  errors is "list" (a non-empty list), "empty"
\* (an empty list) or "null" (JSON null).
Dicts ==
    [deploymentState : StateStrings, errors : {Absent}]
    \cup [deploymentState : {"FAILED"}, errors : {"list", "null"}]
    \cup [deploymentState : {Absent}, errors : {Absent, "list"}]

\* dict.get(key): the value, or None (the string below stands for it here,
\* no state string equals it).
Get(d, key) == IF d[key] = Absent THEN "None" ELSE d[key]

\* key in dict
Has(d, key) == d[key] # Absent

\* bool(x) of Python: None, "", False and {} are false.
Truthy(x) ==
    CASE x.t = "None" -> FALSE
      [] x.t = "str" -> Len(x.v) > 0
      [] x.t = "bool" -> x.v
      [] x.t = "dict" -> \E k \in DOMAIN x.v : x.v[k] # Absent

\* for e in x: None is not iterable, a list is.
Iterable(e) == e \in {"list", "empty"}

\* ------------------------------------------------------------ str.strip()
Chars == {" ", "d"}
IsSpace(c) == c = " "

RECURSIVE LStrip(_)
LStrip(s) == IF s # << >> /\ IsSpace(Head(s)) THEN LStrip(Tail(s)) ELSE s

RECURSIVE RStrip(_)
RStrip(s) ==
    IF s # << >> /\ IsSpace(s[Len(s)]) THEN RStrip(SubSeq(s, 1, Len(s) - 1)) ELSE s

Strip(s) == RStrip(LStrip(s))

Texts == UNION {[1..n -> Chars] : n \in 0..MaxBody}

\* ------------------------------------------------------- the environment
Codes == {200, 201, 204, 400, 409, 500}
Fault == [kind |-> "fault"]
NoResponse == [kind |-> "none"]
Response(code, body) == [kind |-> "http", code |-> code, body |-> body]

\* What requests.post / requests.delete give: a response, or a raised fault.
UploadResponses == {Fault} \cup {Response(c, x) : c \in Codes, x \in Texts}
PlainResponses == {Fault} \cup {Response(c, << >>) : c \in Codes}
\* A status body is a JSON object, or "bad": not JSON, not an object, or an
\* object whose purls/errors cannot be printed (response.json() or the
\* printing raises inside the try).
EmptyDict == [deploymentState |-> Absent, errors |-> Absent]
BadBody == [json |-> "bad", obj |-> EmptyDict]
StatusBodies == {BadBody} \cup [json : {"object"}, obj : Dicts]
StatusResponses ==
    {Fault} \cup {Response(c, BadBody) : c \in Codes \ {200}}
    \cup {Response(200, b) : b \in StatusBodies}

Ids == {<<"d">>, <<"d", "d">>}
Targets == {"PUBLISHED", "VALIDATED", "FAILED"}
Commands == {"upload", "status", "publish", "drop", "help"}
Kinds == {"upload", "status", "publish", "drop"}

VARIABLES
    entry,          \* the function the process was asked to run
    args,           \* main's parsed arguments
    pc,             \* position in the running code
    outcome,        \* of entry: "running", "returned" or "raised"
    ret,            \* value returned by the function that returned last
    response,       \* what the request of the latest operation was answered; not
                    \* kept for the status calls of a wait, nor once a wait begins
    handle,         \* the bundle file object: "none", "open" or "closed"
    closes,         \* calls of close() on the bundle file object
    deployment_id,  \* parameter of the running operation
    target_state,   \* wait_for_deployment's parameters and locals
    check_interval,
    timeout,
    start_time,
    status,         \* of the running iteration; None once its sleep is over, where
                    \* the old value is dead (line 227 assigns before any read)
    wait,           \* wait_for_deployment: "none", "active", "returned", "raised"
    now,            \* time.time()
    sent,           \* kinds of the requests issued so far
    reqs,           \* requests issued by the latest call of an operation
    waitReqs,       \* <<kind, id>> of the requests issued during the wait
    nStatus,        \* check_deployment_status calls made by the wait
    nSleep,         \* time.sleep calls made by the wait
    scen,           \* the wait's calls so far: "fails" (none returned a status),
                    \* "target" (failures, then the target state only), "other"
    hit,            \* a call of the wait returned the target state or FAILED
    terminal,       \* per terminal state, the first call of the wait that returned
                    \* it and the sleeps made until then (poll 0: none did)
    last,           \* the wait's latest step: "none", "status" or "sleep"
    server          \* the publisher service: the uploaded deployment's state and
                    \* whether it was uploaded with publishingType=AUTOMATIC

vars == <<entry, args, pc, outcome, ret, response, handle, closes, deployment_id, target_state,
          check_interval, timeout, start_time, status, wait, now, sent, reqs, waitReqs,
          nStatus, nSleep, scen, hit, terminal, last, server>>

\* The program's own variables.
programVars == <<entry, args, pc, outcome, ret, response, handle, closes, deployment_id,
                 target_state, check_interval, timeout, start_time, status, wait, now, sent,
                 reqs, waitReqs, nStatus, nSleep, scen, hit, terminal, last>>

waitVars == <<target_state, check_interval, timeout, start_time, status, wait,
              waitReqs, nStatus, nSleep, scen, hit, terminal, last>>

TerminalStates == {"PUBLISHED", "FAILED"}
NoTerminal == [s \in TerminalStates |-> [poll |-> 0, sleeps |-> 0]]

NoArgs == [command |-> "none", wait |-> FALSE, auto_publish |-> FALSE,
           readable |-> TRUE, deployment_id |-> << >>]

\* The service before any upload.
NoDeployment == [state |-> "NONE", automatic |-> FALSE]

Init ==
    /\ server = NoDeployment
    /\ entry = "none"
    /\ args = NoArgs
    /\ pc = "idle"
    /\ outcome = "running"
    /\ ret = None
    /\ response = NoResponse
    /\ handle = "none"
    /\ closes = 0
    /\ deployment_id = << >>
    /\ target_state = DefaultTarget
    /\ check_interval = DefaultInterval
    /\ timeout = DefaultTimeout
    /\ start_time = 0
    /\ status = None
    /\ wait = "none"
    /\ now \in 0..MaxStart
    /\ sent = {}
    /\ reqs = 0
    /\ waitReqs = {}
    /\ nStatus = 0
    /\ nSleep = 0
    /\ scen = "fails"
    /\ hit = FALSE
    /\ terminal = NoTerminal
    /\ last = "none"
\* ------------------------------------------------------------------ callers
\* A function returns to main at `back` when main called it; otherwise the call
\* was the whole run.
Return(value, back) ==
    /\ ret' = value
    /\ pc' = IF entry = "main" THEN back ELSE "done"
    /\ outcome' = IF entry = "main" /\ back # "done" THEN outcome ELSE "returned"

\* An exception no handler catches ends the run.
Raise ==
    /\ pc' = "done"
    /\ outcome' = "raised"

\* wait_for_deployment(id, target, interval, timeout) is entered: line 225.
EnterWait(id, target, interval, limit) ==
    /\ deployment_id' = id
    /\ target_state' = target
    /\ check_interval' = interval
    /\ timeout' = limit
    /\ start_time' = now
    /\ wait' = "active"
    /\ waitReqs' = {}
    /\ nStatus' = 0
    /\ nSleep' = 0
    /\ scen' = "fails"
    /\ hit' = FALSE
    /\ terminal' = NoTerminal
    /\ last' = "none"
    /\ response' = NoResponse
    /\ pc' = "wait.test"

\* The request is issued: the service sees it.
Send(kind, id) ==
    /\ sent' = sent \cup {kind}
    /\ reqs' = reqs + 1
    /\ waitReqs' = IF wait = "active" THEN waitReqs \cup {<<kind, id>>} ELSE waitReqs
\* --------------------------------------------------- the process is started
\* main parses the command line (lines 344-366) and calls the command's function.
main(command, waitFlag, auto, readable, id) ==
    /\ pc = "idle"
    \* each subcommand's parser defines its own arguments only (lines 322-342)
    /\ command = "upload" \/ (~auto /\ readable)
    /\ command \in {"upload", "publish"} \/ ~waitFlag
    /\ IF command \in {"status", "publish", "drop"} THEN id \in Ids ELSE id = << >>
    /\ entry' = "main"
    /\ args' = [command |-> command, wait |-> waitFlag, auto_publish |-> auto,
                readable |-> readable, deployment_id |-> id]
    /\ deployment_id' = IF command \in {"status", "publish", "drop"} THEN id ELSE << >>
    /\ pc' = CASE command = "upload" -> "upload.open"
               [] command = "status" -> "status.auth"
               [] command = "publish" -> "publish.auth"
               [] command = "drop" -> "drop.auth"
               [] OTHER -> "done"
    /\ outcome' = IF command = "help" THEN "returned" ELSE outcome
    /\ UNCHANGED <<ret, response, handle, closes, now, sent, reqs>>
    /\ UNCHANGED waitVars

\* The functions called on their own, with any arguments.
call_upload_bundle(auto, readable) ==
    /\ pc = "idle"
    /\ entry' = "upload_bundle"
    /\ args' = [NoArgs EXCEPT !.auto_publish = auto, !.readable = readable]
    /\ pc' = "upload.open"
    /\ UNCHANGED <<outcome, ret, response, handle, closes, deployment_id, now, sent, reqs>>
    /\ UNCHANGED waitVars

call_operation(name, id) ==
    /\ pc = "idle"
    /\ name \in {"status", "publish", "drop"}
    /\ entry' = name
    /\ deployment_id' = id
    /\ pc' = name \o ".auth"
    /\ UNCHANGED <<args, outcome, ret, response, handle, closes, now, sent, reqs>>
    /\ UNCHANGED waitVars

call_wait_for_deployment(id, target, interval, limit) ==
    /\ pc = "idle"
    /\ entry' = "wait_for_deployment"
    /\ EnterWait(id, target, interval, limit)
    /\ UNCHANGED <<args, outcome, ret, handle, closes, status, now, sent, reqs>>

\* ------------------------------------------------------------ upload_bundle
\* Lines 82-92: the value upload_bundle returns for what requests.post gave.
UploadResult(r) ==
    IF r.kind = "http" /\ r.code = 201 THEN Str(Strip(r.body)) ELSE None

\* Line 70: open(bundle_path, "rb"), before the try.
upload_open ==
    /\ pc = "upload.open"
    /\ IF args.readable
       THEN /\ handle' = "open"
            /\ pc' = "upload.auth"
            /\ UNCHANGED outcome
       ELSE /\ Raise
            /\ UNCHANGED handle
    /\ UNCHANGED <<entry, args, ret, response, closes, deployment_id, now, sent, reqs>>
    /\ UNCHANGED waitVars

\* upload_bundle without the finally clause on its fault path.
upload_auth_NoFinally(ok) ==
    /\ pc = "upload.auth"
    /\ IF ok
       THEN pc' = "upload.post" /\ UNCHANGED <<ret, outcome>>
       ELSE Return(None, "main.uploaded")
    /\ UNCHANGED <<entry, args, response, handle, closes, deployment_id, now, sent, reqs>>
    /\ UNCHANGED waitVars

\* Line 77: get_auth_header() is evaluated before the request is made; a fault
\* in it (no credentials and no terminal to prompt on) is caught at line 90.
upload_auth(ok) ==
    /\ pc = "upload.auth"
    /\ IF ok
       THEN pc' = "upload.post" /\ UNCHANGED ret
       ELSE pc' = "upload.finally" /\ ret' = None
    /\ UNCHANGED <<entry, args, outcome, response, handle, closes, deployment_id, now, sent, reqs>>
    /\ UNCHANGED waitVars

\* Lines 75-92: the request and the value to return.
upload_post(r) ==
    /\ pc = "upload.post"
    /\ Send("upload", << >>)
    /\ response' = r
    /\ ret' = UploadResult(r)
    /\ pc' = "upload.finally"
    /\ UNCHANGED <<entry, args, outcome, handle, closes, deployment_id, now>>
    /\ UNCHANGED <<target_state, check_interval, timeout, start_time, status, wait,
                   nStatus, nSleep, scen, hit, terminal, last>>

\* Every upload asking for automatic publishing.
UploadParams_AlwaysAutomatic(auto) == [publishingType |-> "AUTOMATIC"]

\* Lines 62-66: the query parameters of the upload; publishingType is sent
\* only with auto_publish.
UploadParams(auto) == [publishingType |-> IF auto THEN "AUTOMATIC" ELSE Absent]

\* Lines 93-95: the finally clause closes the file, then the function returns.
upload_finally ==
    /\ pc = "upload.finally"
    /\ handle' = "closed"
    /\ closes' = closes + 1
    /\ Return(ret, "main.uploaded")
    /\ UNCHANGED <<entry, args, response, deployment_id, now, sent, reqs>>
    /\ UNCHANGED waitVars

\* ------------------------------------------- publish_deployment and drop
\* publish_deployment taking every success code for success.
PublishResult_Any2xx(r) == Bool(r.kind = "http" /\ r.code \in {200, 201, 204})

\* Lines 168-177 and 199-208: True for 204, False for anything else.
PublishResult(r) == Bool(r.kind = "http" /\ r.code = 204)
DropResult(r) == Bool(r.kind = "http" /\ r.code = 204)

publish_auth(ok) ==
    /\ pc = "publish.auth"
    /\ IF ok
       THEN pc' = "publish.post" /\ UNCHANGED <<ret, outcome>>
       ELSE Return(Bool(FALSE), "main.published")
    /\ UNCHANGED <<entry, args, response, handle, closes, deployment_id, now, sent, reqs>>
    /\ UNCHANGED waitVars

\* publish_deployment sending the request again when it was not answered 204.
publish_post_Retries(r) ==
    /\ pc = "publish.post"
    /\ Send("publish", deployment_id)
    /\ response' = r
    /\ IF PublishResult(r).v
       THEN Return(PublishResult(r), "main.published")
       ELSE UNCHANGED <<pc, ret, outcome>>
    /\ UNCHANGED <<entry, args, handle, closes, deployment_id, now>>
    /\ UNCHANGED <<target_state, check_interval, timeout, start_time, status, wait,
                   nStatus, nSleep, scen, hit, terminal, last>>

publish_post(r) ==
    /\ pc = "publish.post"
    /\ Send("publish", deployment_id)
    /\ response' = r
    /\ Return(PublishResult(r), "main.published")
    /\ UNCHANGED <<entry, args, handle, closes, deployment_id, now>>
    /\ UNCHANGED <<target_state, check_interval, timeout, start_time, status, wait,
                   nStatus, nSleep, scen, hit, terminal, last>>

drop_auth(ok) ==
    /\ pc = "drop.auth"
    /\ IF ok
       THEN pc' = "drop.post" /\ UNCHANGED <<ret, outcome>>
       ELSE Return(Bool(FALSE), "done")
    /\ UNCHANGED <<entry, args, response, handle, closes, deployment_id, now, sent, reqs>>
    /\ UNCHANGED waitVars

drop_post(r) ==
    /\ pc = "drop.post"
    /\ Send("drop", deployment_id)
    /\ response' = r
    /\ Return(DropResult(r), "done")
    /\ UNCHANGED <<entry, args, handle, closes, deployment_id, now>>
    /\ UNCHANGED <<target_state, check_interval, timeout, start_time, status, wait,
                   nStatus, nSleep, scen, hit, terminal, last>>
\* -------------------------------------------------- check_deployment_status
\* Lines 119-146: the decoded object for a 200 whose body decodes and prints,
\* None for any other response and for every fault.
StatusResult(r) ==
    IF r.kind = "http" /\ r.code = 200 /\ r.body.json = "object"
    THEN Dict(r.body.obj)
    ELSE None

\* The deploymentState of a returned value, "None" when it has none.
StateOf(value) == IF value.t = "dict" THEN Get(value.v, "deploymentState") ELSE "None"

\* Seconds the status calls of the running wait have consumed.
CallTime == now - start_time - nSleep * check_interval

\* What a status call may take: anything left of the bound while a wait runs;
\* no code reads the clock outside a wait.
Durations == IF wait = "active" THEN 0..(MaxCallTime - CallTime) ELSE {0}

\* check_deployment_status returns: to line 227 of the wait that called it, or
\* to the caller of the run.
StatusReturn(value) ==
    IF wait = "active"
    THEN /\ status' = value
         /\ pc' = "wait.got"
         /\ scen' = CASE value.t = "None" /\ scen = "fails" -> "fails"
                      [] value.t = "dict" /\ StateOf(value) = target_state
                             /\ scen \in {"fails", "target"} -> "target"
                      [] OTHER -> "other"
         /\ hit' = (hit \/ StateOf(value) \in {target_state, "FAILED"})
         /\ terminal' = IF StateOf(value) \in TerminalStates
                             /\ terminal[StateOf(value)].poll = 0
                        THEN [terminal EXCEPT
                                 ![StateOf(value)] = [poll |-> nStatus, sleeps |-> nSleep]]
                        ELSE terminal
         /\ UNCHANGED <<ret, outcome>>
    ELSE /\ Return(value, "done")
         /\ UNCHANGED <<status, scen, hit, terminal>>

\* Line 115: the credential header; a fault in it is caught at line 144.
status_auth(ok) ==
    /\ pc = "status.auth"
    /\ IF ok
       THEN /\ pc' = "status.post"
            /\ UNCHANGED <<ret, outcome, status, scen, hit, terminal>>
       ELSE StatusReturn(None)
    /\ UNCHANGED <<entry, args, response, handle, closes, deployment_id, now, sent, reqs, waitReqs>>
    /\ UNCHANGED <<target_state, check_interval, timeout, start_time, wait,
                   nStatus, nSleep, last>>

\* check_deployment_status posting to the publish endpoint.
status_post_Publishes(r, d) ==
    /\ pc = "status.post"
    /\ d \in Durations
    /\ Send("publish", deployment_id)
    /\ now' = now + d
    /\ StatusReturn(StatusResult(r))
    /\ response' = IF wait = "active" THEN response ELSE r
    /\ UNCHANGED <<entry, args, handle, closes, deployment_id>>
    /\ UNCHANGED <<target_state, check_interval, timeout, start_time, wait,
                   nStatus, nSleep, last>>

\* check_deployment_status without its except clause: a fault of the request
\* leaves the function as an exception.
status_post_Propagates(r, d) ==
    /\ pc = "status.post"
    /\ d \in Durations
    /\ Send("status", deployment_id)
    /\ now' = now + d
    /\ IF r = Fault
       THEN Raise /\ UNCHANGED <<ret, status, scen, hit, terminal>>
       ELSE StatusReturn(StatusResult(r))
    /\ response' = IF wait = "active" THEN response ELSE r
    /\ UNCHANGED <<entry, args, handle, closes, deployment_id>>
    /\ UNCHANGED <<target_state, check_interval, timeout, start_time, wait,
                   nStatus, nSleep, last>>

\* Lines 113-146: the request, which takes d seconds, and the value returned.
status_post(r, d) ==
    /\ pc = "status.post"
    /\ d \in Durations
    /\ Send("status", deployment_id)
    /\ now' = now + d
    /\ StatusReturn(StatusResult(r))
    /\ response' = IF wait = "active" THEN response ELSE r
    /\ UNCHANGED <<entry, args, handle, closes, deployment_id>>
    /\ UNCHANGED <<target_state, check_interval, timeout, start_time, wait,
                   nStatus, nSleep, last>>

\* ------------------------------------------------------ wait_for_deployment
\* The loop's condition with the start of the wait forgotten.
\* The loop running while the elapsed time has not passed the timeout.
LoopCondition_Inclusive == now - start_time <= timeout

\* The loop polling once before the timeout is first tested (a do-while).
LoopCondition_DoWhile == nStatus = 0 \/ now - start_time < timeout

LoopCondition_NoStart == now < timeout

\* Line 226: the loop's condition.
LoopCondition == now - start_time < timeout

\* The iteration giving up on a failed status call: it returns what it got.
WaitBranch_AbortOnFail(value, target) ==
    CASE ~Truthy(value) -> "target"
      [] Truthy(value) /\ StateOf(value) = target -> "target"
      [] Truthy(value) /\ StateOf(value) # target /\ StateOf(value) = "FAILED" -> "failed"
      [] OTHER -> "continue"

\* The iteration rejecting a state it does not know: it returns at once.
WaitBranch_KnownOnly(value, target) ==
    CASE ~Truthy(value) -> "retry"
      [] Truthy(value) /\ StateOf(value) = target -> "target"
      [] Truthy(value) /\ StateOf(value) \notin KnownStates -> "target"
      [] Truthy(value) /\ StateOf(value) # target /\ StateOf(value) = "FAILED" -> "failed"
      [] OTHER -> "continue"

\* Lines 229-249: what one iteration does with the status it was given.
WaitBranch(value, target) ==
    CASE ~Truthy(value) -> "retry"
      [] Truthy(value) /\ StateOf(value) = target -> "target"
      [] Truthy(value) /\ StateOf(value) # target /\ StateOf(value) = "FAILED" -> "failed"
      [] OTHER -> "continue"

\* wait_for_deployment returns.
WaitReturn(value) ==
    /\ wait' = "returned"
    /\ ret' = value
    /\ pc' = "done"
    /\ outcome' = "returned"

\* Lines 226-227 and 251-252: the loop is entered again, or the wait times out.
wait_test ==
    /\ pc = "wait.test"
    /\ IF LoopCondition
       THEN /\ pc' = "status.auth"
            /\ nStatus' = nStatus + 1
            /\ last' = "status"
            /\ reqs' = 0
            /\ UNCHANGED <<wait, ret, outcome>>
       ELSE /\ WaitReturn(None)
            /\ UNCHANGED <<nStatus, last, reqs>>
    /\ UNCHANGED <<entry, args, response, handle, closes, deployment_id, now, sent, waitReqs>>
    /\ UNCHANGED <<target_state, check_interval, timeout, start_time, status,
                   nSleep, scen, hit, terminal>>

\* The wait giving up after a failed status call.
wait_retry_GivesUp ==
    /\ pc = "wait.got"
    /\ WaitBranch(status, target_state) = "retry"
    /\ WaitReturn(None)
    /\ UNCHANGED <<entry, args, response, handle, closes, deployment_id, now, sent, reqs, waitReqs>>
    /\ UNCHANGED <<target_state, check_interval, timeout, start_time, status,
                   nStatus, nSleep, scen, hit, terminal, last>>

\* Lines 229-232: no status; the sleep of line 231 follows.
wait_retry ==
    /\ pc = "wait.got"
    /\ WaitBranch(status, target_state) = "retry"
    /\ pc' = "wait.sleep"
    /\ UNCHANGED <<entry, args, outcome, ret, response, handle, closes, deployment_id, now, sent, reqs>>
    /\ UNCHANGED waitVars

\* Lines 236-238: the target state was reported.
wait_target ==
    /\ pc = "wait.got"
    /\ WaitBranch(status, target_state) = "target"
    /\ WaitReturn(status)
    /\ UNCHANGED <<entry, args, response, handle, closes, deployment_id, now, sent, reqs, waitReqs>>
    /\ UNCHANGED <<target_state, check_interval, timeout, start_time, status,
                   nStatus, nSleep, scen, hit, terminal, last>>

\* Lines 240-246: FAILED was reported; the errors are printed by iterating
\* status.get('errors', []), which raises TypeError when errors is null.
wait_failed ==
    /\ pc = "wait.got"
    /\ WaitBranch(status, target_state) = "failed"
    /\ IF Has(status.v, "errors") /\ ~Iterable(status.v["errors"])
       THEN /\ Raise
            /\ wait' = "raised"
            /\ UNCHANGED ret
       ELSE WaitReturn(status)
    /\ UNCHANGED <<entry, args, response, handle, closes, deployment_id, now, sent, reqs, waitReqs>>
    /\ UNCHANGED <<target_state, check_interval, timeout, start_time, status,
                   nStatus, nSleep, scen, hit, terminal, last>>

\* The timeout tested after the status call, before the sleep.
wait_continue_TestsFirst ==
    /\ pc = "wait.got"
    /\ WaitBranch(status, target_state) = "continue"
    /\ IF LoopCondition
       THEN /\ pc' = "wait.sleep"
            /\ UNCHANGED <<wait, ret, outcome>>
       ELSE WaitReturn(None)
    /\ UNCHANGED <<entry, args, response, handle, closes, deployment_id, now, sent, reqs, waitReqs>>
    /\ UNCHANGED <<target_state, check_interval, timeout, start_time, status,
                   nStatus, nSleep, scen, hit, terminal, last>>

\* Lines 248-249: any other state; the sleep of line 249 follows.
wait_continue ==
    /\ pc = "wait.got"
    /\ WaitBranch(status, target_state) = "continue"
    /\ pc' = "wait.sleep"
    /\ UNCHANGED <<entry, args, outcome, ret, response, handle, closes, deployment_id, now, sent, reqs>>
    /\ UNCHANGED waitVars

\* The sleep growing with every retry (a linear backoff).
wait_sleep_Backoff ==
    /\ pc = "wait.sleep"
    /\ now' = now + check_interval * (nSleep + 1)
    /\ nSleep' = nSleep + 1
    /\ last' = "sleep"
    /\ pc' = "wait.test"
    /\ status' = None
    /\ UNCHANGED <<entry, args, outcome, ret, response, handle, closes, deployment_id, sent, reqs, waitReqs>>
    /\ UNCHANGED <<target_state, check_interval, timeout, start_time, wait,
                   nStatus, scen, hit, terminal>>

\* Lines 231 and 249: time.sleep(check_interval), then back to line 226.
wait_sleep ==
    /\ pc = "wait.sleep"
    /\ now' = now + check_interval
    /\ nSleep' = nSleep + 1
    /\ last' = "sleep"
    /\ pc' = "wait.test"
    /\ status' = None
    /\ UNCHANGED <<entry, args, outcome, ret, response, handle, closes, deployment_id, sent, reqs, waitReqs>>
    /\ UNCHANGED <<target_state, check_interval, timeout, start_time, wait,
                   nStatus, scen, hit, terminal>>

\* ---------------------------------------------------------- main, continued
\* main starting the wait whatever the operation returned.
ShouldWait_FlagOnly(value, flag) == flag

\* Lines 348 and 356: the condition under which main starts the wait.
ShouldWait(value, flag) == Truthy(value) /\ flag

\* Lines 347-349: upload_bundle returned to main.
main_uploaded ==
    /\ pc = "main.uploaded"
    /\ IF ShouldWait(ret, args.wait)
       THEN /\ EnterWait(ret.v, DefaultTarget, DefaultInterval, DefaultTimeout)
            /\ UNCHANGED <<outcome, status>>
       ELSE /\ pc' = "done"
            /\ outcome' = "returned"
            /\ UNCHANGED <<deployment_id, response>>
            /\ UNCHANGED waitVars
    /\ UNCHANGED <<entry, args, ret, handle, closes, now, sent, reqs>>

\* Lines 355-357: publish_deployment returned to main.
main_published ==
    /\ pc = "main.published"
    /\ IF ShouldWait(ret, args.wait)
       THEN /\ EnterWait(args.deployment_id, DefaultTarget, DefaultInterval, DefaultTimeout)
            /\ UNCHANGED <<outcome, status>>
       ELSE /\ pc' = "done"
            /\ outcome' = "returned"
            /\ UNCHANGED <<deployment_id, response>>
            /\ UNCHANGED waitVars
    /\ UNCHANGED <<entry, args, ret, handle, closes, now, sent, reqs>>

\* ------------------------------------------------------------ specification
Timeouts == -1..MaxTimeout
Intervals == 1..MaxInterval

\* The program against any service: every response may come at every request.
Next ==
    \/ \E c \in Commands, w \in BOOLEAN, a \in BOOLEAN, f \in BOOLEAN, id \in Ids \cup {<< >>} :
          main(c, w, a, f, id) /\ UNCHANGED server
    \/ \E a \in BOOLEAN, f \in BOOLEAN : call_upload_bundle(a, f) /\ UNCHANGED server
    \/ \E name \in {"status", "publish", "drop"}, id \in Ids : call_operation(name, id) /\ UNCHANGED server
    \/ \E id \in Ids, x \in Targets, i \in Intervals, t \in Timeouts :
          call_wait_for_deployment(id, x, i, t) /\ UNCHANGED server
    \/ upload_open /\ UNCHANGED server
    \/ \E ok \in BOOLEAN : upload_auth(ok) /\ UNCHANGED server
    \/ \E r \in UploadResponses : upload_post(r) /\ UNCHANGED server
    \/ upload_finally /\ UNCHANGED server
    \/ \E ok \in BOOLEAN : status_auth(ok) /\ UNCHANGED server
    \/ \E r \in StatusResponses, d \in 0..MaxCallTime : status_post(r, d) /\ UNCHANGED server
    \/ \E ok \in BOOLEAN : publish_auth(ok) /\ UNCHANGED server
    \/ \E r \in PlainResponses : publish_post(r) /\ UNCHANGED server
    \/ \E ok \in BOOLEAN : drop_auth(ok) /\ UNCHANGED server
    \/ \E r \in PlainResponses : drop_post(r) /\ UNCHANGED server
    \/ wait_test /\ UNCHANGED server
    \/ wait_retry /\ UNCHANGED server
    \/ wait_target /\ UNCHANGED server
    \/ wait_failed /\ UNCHANGED server
    \/ wait_continue /\ UNCHANGED server
    \/ wait_sleep /\ UNCHANGED server
    \/ main_uploaded /\ UNCHANGED server
    \/ main_published /\ UNCHANGED server

Spec == Init /\ [][Next]_vars

\* wait_for_deployment called on its own, with any arguments.
WaitNext ==
    \/ \E id \in Ids, x \in Targets, i \in Intervals, t \in Timeouts :
          call_wait_for_deployment(id, x, i, t) /\ UNCHANGED server
    \/ wait_test /\ UNCHANGED server
    \/ \E ok \in BOOLEAN : status_auth(ok) /\ UNCHANGED server
    \/ \E r \in StatusResponses, d \in 0..MaxCallTime : status_post(r, d) /\ UNCHANGED server
    \/ wait_retry /\ UNCHANGED server
    \/ wait_target /\ UNCHANGED server
    \/ wait_failed /\ UNCHANGED server
    \/ wait_continue /\ UNCHANGED server
    \/ wait_sleep /\ UNCHANGED server

\* The program is sequential and every request is answered or fails: a step
\* that can be taken is taken.
FairSpec == Init /\ [][WaitNext]_vars /\ WF_vars(WaitNext)

\* --------------------------------------------------- the publisher service
\* The service of the command chain's documentation: an accepted upload
\* creates a deployment, PENDING; validation takes it to VALIDATED or FAILED;
\* a deployment uploaded with publishingType=AUTOMATIC goes on to PUBLISHING
\* and PUBLISHED (or FAILED), any other stays VALIDATED until a publish request.
server_upload(r) ==
    server' = IF r.kind = "http" /\ r.code = 201
              THEN [state |-> "PENDING",
                    automatic |-> UploadParams(args.auto_publish).publishingType = "AUTOMATIC"]
              ELSE server

\* A status request is answered with the deployment's state, or fails.
server_status(r) ==
    /\ \/ r.kind = "fault"
       \/ r.kind = "http" /\ r.code # 200
       \/ /\ r.kind = "http" /\ r.code = 200
          /\ r.body.json = "object"
          /\ r.body.obj.deploymentState = server.state
    /\ UNCHANGED server

\* The states the service moves a deployment to by itself.
ServerSuccessors(d) ==
    CASE d.state = "PENDING" -> {"VALIDATING", "FAILED"}
      [] d.state = "VALIDATING" -> {"VALIDATED", "FAILED"}
      [] d.state = "VALIDATED" -> IF d.automatic THEN {"PUBLISHING"} ELSE {}
      [] d.state = "PUBLISHING" -> {"PUBLISHED", "FAILED"}
      [] OTHER -> {}

server_step ==
    /\ \E x \in ServerSuccessors(server) : server' = [server EXCEPT !.state = x]
    /\ UNCHANGED programVars

\* The run `upload [--wait] [--auto-publish]` against that service.
ServerNext ==
    \/ \E w \in BOOLEAN, a \in BOOLEAN, f \in BOOLEAN :
          main("upload", w, a, f, << >>) /\ UNCHANGED server
    \/ upload_open /\ UNCHANGED server
    \/ \E ok \in BOOLEAN : upload_auth(ok) /\ UNCHANGED server
    \/ \E r \in UploadResponses : upload_post(r) /\ server_upload(r)
    \/ upload_finally /\ UNCHANGED server
    \/ main_uploaded /\ UNCHANGED server
    \/ wait_test /\ UNCHANGED server
    \/ \E ok \in BOOLEAN : status_auth(ok) /\ UNCHANGED server
    \/ \E r \in StatusResponses, d \in 0..MaxCallTime : status_post(r, d) /\ server_status(r)
    \/ wait_retry /\ UNCHANGED server
    \/ wait_target /\ UNCHANGED server
    \/ wait_failed /\ UNCHANGED server
    \/ wait_continue /\ UNCHANGED server
    \/ wait_sleep /\ UNCHANGED server
    \/ server_step

ServerSpec == Init /\ [][ServerNext]_vars
\* ==================================================================== claims
WaitOver == wait \in {"returned", "raised"}
Elapsed == now - start_time
IsHttp(code) == response.kind = "http" /\ response.code = code

\* C1: in wait_for_deployment, for every target state, the first GetStatus call
\* that returns a status whose deploymentState is FAILED makes the wait return
\* that status at once: no sleep and no further GetStatus call follows it.
\* (Stated as the claim has it; the code raises instead when errors is null.)
C1_FailedReturnsAtOnce ==
    terminal["FAILED"].poll # 0 =>
        /\ nStatus = terminal["FAILED"].poll
        /\ nSleep = terminal["FAILED"].sleeps
        /\ \/ pc = "wait.got" /\ StateOf(status) = "FAILED"
           \/ wait = "returned" /\ ret.t = "dict" /\ StateOf(ret) = "FAILED"

\* C2: if no GetStatus call of a wait returned the target state or FAILED, the
\* wait ends only by returning the Timeout signal (None), at least timeout
\* seconds after it began; it never returns a status and never raises.
C2_TimeoutWhenNeverTerminal ==
    (WaitOver /\ ~hit) => (wait = "returned" /\ ret = None /\ Elapsed >= timeout)

C2_Witness ==
    /\ wait = "returned" /\ ret = None /\ ~hit /\ scen = "other"
    /\ check_interval = 1 /\ timeout = 3 /\ nStatus = 3

\* The failed calls of the scenario of C3: the first k calls fail, every later
\* call returns the target state.
InScenario == scen \in {"fails", "target"}
FailedCalls == IF scen = "fails" THEN nStatus ELSE nStatus - 1
ReturnedTarget == wait = "returned" /\ ret.t = "dict" /\ StateOf(ret) = target_state

\* C3 (as claimed): for every k with k < timeout/interval, if the first k
\* GetStatus calls fail and every later one returns the target state, the wait
\* returns the target status and not the Timeout signal.
C3_ToleratesFailures ==
    (WaitOver /\ InScenario /\ FailedCalls * check_interval < timeout) => ReturnedTarget

\* C3 (amended): the same, for every k such that the k failed calls and the k
\* sleeps that follow them take less than timeout seconds together; k <
\* timeout/interval is enough only when the failed calls take no time.
C3_ToleratesFailuresInTime ==
    (WaitOver /\ InScenario
        /\ (scen = "fails" => FailedCalls * check_interval + CallTime < timeout))
    => ReturnedTarget

C3_Witness ==
    /\ ReturnedTarget /\ scen = "target" /\ nStatus = 3 /\ nSleep = 2
    /\ check_interval = 1 /\ timeout = 3

\* C4: PUBLISHED and FAILED are terminal for polling: for every target state,
\* once a GetStatus call of a wait returned PUBLISHED or FAILED, no further
\* GetStatus call is made in that wait.
C4_TerminalStopsPolling ==
    \A s \in TerminalStates : terminal[s].poll # 0 => nStatus = terminal[s].poll

\* C5: upload_bundle returns a non-empty identifier equal to the trimmed body
\* exactly when the response is 201, and no identifier for every other
\* response and for a fault.
C5_UploadResult ==
    pc = "upload.finally" =>
        IF IsHttp(201)
        THEN ret.t = "str" /\ ret.v = Strip(response.body) /\ Len(ret.v) > 0
        ELSE ret = None

\* C6: once opened, the bundle file is closed exactly once on every exit path
\* of upload_bundle (201, other response, fault of the request, fault while
\* the credential header is built); it is open only inside the try.
C6_HandleClosedOnce ==
    /\ handle = "open" => pc \in {"upload.auth", "upload.post", "upload.finally"}
    /\ handle = "closed" => closes = 1
    /\ handle # "closed" => closes = 0

C6_Witness ==
    /\ entry = "upload_bundle" /\ outcome = "returned"
    /\ handle = "closed" /\ closes = 1 /\ sent = {}

\* C7: publish_deployment returns True if and only if the server answered 204;
\* every other response and every fault gives False.
C7_PublishSuccessIff204 ==
    (pc = "main.published" \/ (entry = "publish" /\ pc = "done")) =>
        (ret.t = "bool" /\ (ret.v <=> IsHttp(204)))

C7_Witness ==
    pc = "main.published" /\ IsHttp(409) /\ ret = Bool(FALSE)

\* C8: main starts the wait only when --wait was given and the operation before
\* it succeeded (publish answered 204; upload answered 201 with a non-empty
\* identifier), and then with target PUBLISHED, interval 10 and timeout 1800;
\* as long as no wait was started, an upload or publish run issues no status
\* request.
C8_WaitOnlyAfterSuccess ==
    [][/\ (entry = "main" /\ wait = "none" /\ wait' = "active") =>
            /\ args.wait
            /\ \/ args.command = "publish" /\ IsHttp(204)
                     /\ deployment_id' = args.deployment_id
               \/ args.command = "upload" /\ IsHttp(201)
                     /\ Strip(response.body) # << >>
                     /\ deployment_id' = Strip(response.body)
            /\ target_state' = "PUBLISHED"
            /\ check_interval' = 10
            /\ timeout' = 1800
       /\ (entry' = "main" /\ args'.command \in {"upload", "publish"} /\ wait' = "none")
            => "status" \notin sent'
      ]_vars

C8_Witness ==
    /\ entry = "main" /\ args.command = "publish" /\ args.wait
    /\ IsHttp(409) /\ pc = "done" /\ wait = "none" /\ "status" \notin sent

\* C9: whatever its outcome, a wait issues only status queries for the id it
\* was given: no upload, publish or drop request.
C9_WaitOnlyQueriesStatus ==
    waitReqs \subseteq {<<"status", deployment_id>>}

C9_Witness ==
    wait = "returned" /\ ret = None /\ waitReqs # {} /\ nStatus >= 2

\* C10: a status whose deploymentState is not one of the six known states, or
\* is absent, and is not the target, neither ends the wait nor raises: the
\* wait sleeps one interval and goes back to the loop.
C10_UnknownStateIsNonTerminal ==
    [][/\ (pc = "wait.got" /\ status.t = "dict"
              /\ StateOf(status) \notin KnownStates /\ StateOf(status) # target_state)
            => (pc' = "wait.sleep" /\ wait' = "active" /\ outcome' = "running")
       /\ pc = "wait.sleep"
            => (pc' = "wait.test" /\ now' = now + check_interval /\ wait' = "active")
      ]_vars

C10_Witness ==
    /\ pc = "wait.sleep" /\ wait = "active"
    /\ status.t = "dict" /\ StateOf(status) = "NEW_STATE"
\* C11: outside the polling loop nothing is retried: a call of upload_bundle,
\* check_deployment_status, publish_deployment or drop_deployment issues at
\* most one request, whatever it is answered, and a request issued outside a
\* wait is the first of its kind in the run.
C11_NoRetry ==
    [][/\ reqs' <= 1
       /\ (reqs' = reqs + 1 /\ wait # "active") => sent' # sent
      ]_vars

C11_Witness ==
    /\ entry = "publish" /\ pc = "done" /\ IsHttp(500)
    /\ reqs = 1 /\ ret = Bool(FALSE)

\* The run the process was asked for is an operation called on its own, or by
\* main with nothing after it.
Operation ==
    CASE entry = "main" -> args.command
      [] entry = "upload_bundle" -> "upload"
      [] OTHER -> entry
OperationOver ==
    \/ pc = "done" /\ wait = "none"
    \/ pc \in {"main.uploaded", "main.published"}

\* C12: a request that gets no response never leaves upload, status, publish or
\* drop as an exception: the operation returns None (upload, status) or False
\* (publish, drop); so does status for a 200 whose body cannot be decoded.
C12_FaultsBecomeFailureValues ==
    (OperationOver /\ Operation \in Kinds) =>
        /\ response = Fault =>
              /\ outcome # "raised"
              /\ ret = IF Operation \in {"upload", "status"} THEN None ELSE Bool(FALSE)
        /\ (Operation = "status" /\ IsHttp(200) /\ response.body.json = "bad") =>
              (outcome # "raised" /\ ret = None)

C12_Witness ==
    /\ entry = "status" /\ pc = "done" /\ outcome = "returned"
    /\ response = Fault /\ ret = None
\* C13: a failed GetStatus call never ends a wait by itself: the wait sleeps
\* one interval and re-enters the loop; and the wait returns only a status in
\* the target state, a status in FAILED, or None with the timeout elapsed
\* (an exception leaves it only on a FAILED status).
C13_FailedCallIsAbsorbed ==
    [][/\ (pc = "wait.got" /\ status = None)
            => (pc' = "wait.sleep" /\ wait' = "active" /\ outcome' = "running")
       /\ (pc = "wait.sleep" /\ status = None)
            => (pc' = "wait.test" /\ now' = now + check_interval /\ wait' = "active")
       /\ wait' = "returned" =>
            \/ ret'.t = "dict" /\ StateOf(ret') \in {target_state', "FAILED"}
                  /\ ret' = status'
            \/ ret' = None /\ now' - start_time' >= timeout'
       /\ wait' = "raised" => StateOf(status') = "FAILED"
      ]_vars

C13_Witness ==
    pc = "wait.sleep" /\ status = None /\ wait = "active" /\ nStatus = 2

\* C14: within one wait exactly one sleep separates two consecutive GetStatus
\* calls, and every sleep lasts check_interval, which does not change during
\* the wait, whether the call before it failed or returned a non-terminal state.
C14_FixedInterval ==
    [][/\ (wait = "active" /\ wait' = "active") => check_interval' = check_interval
       /\ (wait = "active" /\ nSleep' # nSleep)
            => /\ nSleep' = nSleep + 1
               /\ now' = now + check_interval
               /\ last = "status"
       /\ (wait = "active" /\ nStatus' # nStatus)
            => /\ nStatus' = nStatus + 1
               /\ nSleep = nStatus
               /\ last = IF nStatus = 0 THEN "none" ELSE "sleep"
      ]_vars

C14_Witness ==
    pc = "status.auth" /\ wait = "active" /\ nStatus = 3 /\ nSleep = 2 /\ scen = "other"
\* C15 as stated: None (Timeout) is returned only with the elapsed time at
\* least timeout and no call of the wait having returned the target state or
\* FAILED; with status calls that take no time the elapsed time exceeds
\* timeout by less than one interval.
C15_TimeoutBound ==
    (wait = "returned" /\ ret = None) =>
        /\ Elapsed >= timeout
        /\ ~hit
        /\ CallTime = 0 => Elapsed < timeout + check_interval

\* C15, amended: the same, the bound on the excess holding for a timeout that
\* is not negative (a negative timeout is exceeded by -timeout at once).
C15_TimeoutBoundNonNegative ==
    (wait = "returned" /\ ret = None) =>
        /\ Elapsed >= timeout
        /\ ~hit
        /\ (CallTime = 0 /\ timeout >= 0) => Elapsed < timeout + check_interval
        /\ (CallTime = 0 /\ timeout < 0) => Elapsed = 0

C15_Witness ==
    /\ wait = "returned" /\ ret = None /\ timeout = 3 /\ check_interval = 2
    /\ CallTime = 0 /\ Elapsed = 4

\* The GetStatus calls a wait may make: ceil(timeout / check_interval), none
\* for a timeout that is not positive.
MaxPolls ==
    IF timeout <= 0 THEN 0 ELSE (timeout + check_interval - 1) \div check_interval

\* C16: for a positive interval every wait ends; it makes at most
\* ceil(timeout / interval) GetStatus calls, and with a timeout that is zero
\* or negative it returns None (Timeout) without any GetStatus call.
C16_Terminates ==
    /\ [](wait # "none" =>
            /\ check_interval > 0
            /\ nStatus <= MaxPolls
            /\ (WaitOver /\ timeout <= 0) => (wait = "returned" /\ ret = None /\ nStatus = 0))
    /\ (wait = "active") ~> WaitOver

C16_Witness ==
    \/ wait = "returned" /\ ret = None /\ timeout = 0 /\ nStatus = 0 /\ entry = "wait"
    \/ wait = "returned" /\ ret = None /\ timeout = 3 /\ check_interval = 2 /\ nStatus = MaxPolls

\* C17: the timeout is tested only before a GetStatus call: None (Timeout) is
\* returned from the loop test alone, and after at least one poll the step
\* before that test is a sleep, so every poll of the wait was followed by a
\* sleep and nothing was fetched after the last one.
C17_TimeoutFollowsSleep ==
    [][(wait = "active" /\ wait' = "returned" /\ ret' = None) =>
          /\ pc = "wait.test"
          /\ nStatus' = nStatus
          /\ nStatus >= 1 => (last = "sleep" /\ nSleep = nStatus /\ status = None)
      ]_vars

C17_Witness ==
    /\ wait = "returned" /\ ret = None /\ nStatus = 2 /\ nSleep = 2 /\ last = "sleep"
    /\ scen = "other"
\* C18: the command chain waits for PUBLISHED and sends no publish request
\* after an upload: against the publisher service, a run `upload --wait`
\* without --auto-publish that reaches the wait ends it only on a FAILED
\* status or by the timeout (None), never with the target state reached.
C18_ManualUploadNeverReachesTarget ==
    /\ entry = "main" => "publish" \notin sent
    /\ (entry = "main" /\ wait # "none") => target_state = DefaultTarget
    /\ (entry = "main" /\ ~args.auto_publish /\ WaitOver) =>
          /\ \/ StateOf(status) = "FAILED"
             \/ wait = "returned" /\ ret = None /\ Elapsed >= timeout
          /\ ~(wait = "returned" /\ StateOf(ret) = target_state)

C18_Witness ==
    /\ entry = "main" /\ args.wait /\ ~args.auto_publish
    /\ wait = "returned" /\ ret = None
    /\ server.state = "VALIDATED" /\ nStatus >= 1 /\ ~hit
====
